---- MODULE Spec2Model ----
(***************************************************************************)
(* Model of src/src/routes/buildings.ts: the Express router of the         *)
(* buildings resource.  The state is the Building collection (Record       *)
(* Store), the assets held by the remote asset store, the identifier       *)
(* generator and, for every request in flight, the position of its handler *)
(* between two awaits.  Every await of a handler is a point where another  *)
(* request's handler may run, so a handler with n awaits is n actions.     *)
(***************************************************************************)
EXTENDS Integers, Sequences, FiniteSets, TLC

\* ---------------------------------------------------------------- bounds
\* Longest floors sequence an add-floor request is allowed to produce.
MaxFloors == 2
\* Number of identifiers uuidv4() hands out in one behaviour.
MaxUuids == 1
\* Number of times one remote asset may be (over)written.
MaxVersion == 2

\* ---------------------------------------------------------------- inputs
\* Handlers that may be suspended at an await at the same time.
Reqs == {"r1", "r2"}
\* Building ids a client makes up itself.
ClientIds == {"b1"}
\* Floor ids a client makes up itself.
ClientFloorIds == {"f1"}
\* Values of the free-form field `name` of a building.
Names == {"A", "B"}
\* Values of the free-form field `label` of a floor.
Labels == {"L1", "L2"}
\* Values of the multipart field frameNumber ("" is the absent/empty field).
FrameNumbers == {"", "7"}
\* Textual form of the n-th identifier uuidv4() returns.
UuidNames == <<"u1", "u2", "u3", "u4">>

VARIABLES
    store,      \* the Building collection: a set of documents
    remote,     \* the remote asset store: a set of assets, one per key
    nextUuid,   \* number of identifiers uuidv4() has returned so far
    pc,         \* pc[r]: the await at which the handler of slot r is suspended
    req,        \* req[r]: the locals of the handler of slot r
    resp        \* the response sent by the latest step (NoResp: none)

vars == <<store, remote, nextUuid, pc, req, resp>>

\* An optional value is a sequence of length 0 (absent) or 1 (present).
Absent == <<>>
Some(v) == <<v>>

\* ------------------------------------------------------------- Record Store
\* Building.findOne({ id }): the documents whose id matches (at most one,
\* the collection has a unique index on id).
FindOne(id) == {d \in store : d.id = id}

\* The unique index on Building.id: no two documents share an id.
UniqueIds(docs) == \A d1, d2 \in docs : d1.id = d2.id => d1 = d2

\* _id of a new document: an ObjectId no document and no handler holds.
OidsInUse == {d._id : d \in store} \cup
             {req[r].doc[1]._id : r \in {q \in Reqs : req[q].doc # Absent}}
FreshOid == CHOOSE n \in 1..(Cardinality(OidsInUse) + 1) :
                n \notin OidsInUse /\ \A m \in 1..(n - 1) : m \in OidsInUse

\* new Building(buildingData): the schema's defaults for the fields the
\* body leaves out.
NewBuilding(id, name) ==
    [_id |-> FreshOid, id |-> id, name |-> name, floors |-> <<>>,
     modelPath |-> Absent]

\* { $set: body } and Object.assign(target, body): a shallow merge, every
\* field the body holds replaces the target's.
Merge(target, body) ==
    [f \in DOMAIN target |-> IF f \in DOMAIN body THEN body[f] ELSE target[f]]

\* ------------------------------------------------------ Identifier Generator
\* uuidv4(): the next identifier; no two calls return the same one.
Uuid == UuidNames[nextUuid + 1]

\* `body.id || uuidv4()`: the supplied id, or a generated one.
IdOrUuid(optId) == IF optId # Absent THEN optId[1] ELSE Uuid
UuidsUsed(optId) == IF optId # Absent THEN nextUuid ELSE nextUuid + 1

\* Ids a client can name in a request: its own and the generated ones it saw.
KnownIds == ClientIds \cup {UuidNames[i] : i \in 1..nextUuid}
KnownFloorIds == ClientFloorIds \cup {UuidNames[i] : i \in 1..nextUuid}

\* ---------------------------------------------------------------- requests
NoReq == [id |-> "", read |-> Absent, doc |-> Absent, floorIndex |-> 0,
          public_id |-> "", url |-> Absent]
NoResp == [op |-> "", status |-> 0, msg |-> ""]

\* res.status(status).json(...) of a handler that ends in its first step.
Reply(op, status, msg) ==
    /\ resp' = [op |-> op, status |-> status, msg |-> msg]
    /\ UNCHANGED <<pc, req>>

\* The handler of slot r suspends at the await `at`, keeping `locals`.
Await(r, at, locals) ==
    /\ pc' = [pc EXCEPT ![r] = at]
    /\ req' = [req EXCEPT ![r] = locals]
    /\ resp' = NoResp

\* res.status(status).json(...) of a handler resumed from an await.
Finish(r, op, status, msg) ==
    /\ resp' = [op |-> op, status |-> status, msg |-> msg]
    /\ pc' = [pc EXCEPT ![r] = "idle"]
    /\ req' = [req EXCEPT ![r] = NoReq]

Init ==
    /\ store = {}
    /\ remote = {}
    /\ nextUuid = 0
    /\ pc = [r \in Reqs |-> "idle"]
    /\ req = [r \in Reqs |-> NoReq]
    /\ resp = NoResp

\* ------------------------------------------------------------ GET /:id
GetBuilding(id, dbOk) ==
    /\ UNCHANGED <<store, remote, nextUuid>>
    /\ IF ~dbOk THEN Reply("getBuilding", 500, "Server error")
       ELSE IF FindOne(id) = {}
       THEN Reply("getBuilding", 404, "Building not found")
       ELSE Reply("getBuilding", 200, "")

\* ------------------------------------------------------------ POST /
CreateBuilding(optId, name, dbOk) ==
    /\ UuidsUsed(optId) <= MaxUuids
    /\ nextUuid' = UuidsUsed(optId)
    /\ UNCHANGED remote
    /\ LET building == NewBuilding(IdOrUuid(optId), name)
       IN  IF dbOk /\ UniqueIds(store \cup {building})
           THEN /\ store' = store \cup {building}
                /\ Reply("createBuilding", 201, "")
           ELSE /\ UNCHANGED store
                /\ Reply("createBuilding", 500, "Server error")

\* ------------------------------------------------------------ PUT /:id
UpdateBuilding(id, body, dbOk) ==
    /\ UNCHANGED <<remote, nextUuid>>
    /\ IF ~dbOk
       THEN /\ UNCHANGED store
            /\ Reply("updateBuilding", 500, "Server error")
       ELSE IF FindOne(id) = {}
       THEN /\ UNCHANGED store
            /\ Reply("updateBuilding", 404, "Building not found")
       ELSE LET old == CHOOSE d \in FindOne(id) : TRUE
                updated == (store \ {old}) \cup {Merge(old, body)}
            IN  IF UniqueIds(updated)
                THEN /\ store' = updated
                     /\ Reply("updateBuilding", 200, "")
                ELSE /\ UNCHANGED store
                     /\ Reply("updateBuilding", 500, "Server error")

\* ------------------------------------------------------------ DELETE /:id
DeleteBuilding(id, dbOk) ==
    /\ UNCHANGED <<remote, nextUuid>>
    /\ IF ~dbOk
       THEN /\ UNCHANGED store
            /\ Reply("deleteBuilding", 500, "Server error")
       ELSE IF FindOne(id) = {}
       THEN /\ UNCHANGED store
            /\ Reply("deleteBuilding", 404, "Building not found")
       ELSE /\ store' = store \ FindOne(id)
            /\ Reply("deleteBuilding", 200, "Building deleted successfully")

\* ------------------------------------------------------------ POST /:id/floors
\* Mutant of Push: the new floor is put in front ($position: 0).
Push_Front(floors, floorData) == <<floorData>> \o floors

\* { $push: { floors: floorData } }
Push(floors, floorData) == Append(floors, floorData)

AddFloor(id, optId, label, dbOk) ==
    /\ UuidsUsed(optId) <= MaxUuids
    /\ \A d \in FindOne(id) : Len(d.floors) < MaxFloors
    /\ nextUuid' = UuidsUsed(optId)
    /\ UNCHANGED remote
    /\ LET floorData == [id |-> IdOrUuid(optId), label |-> label]
       IN  IF ~dbOk
           THEN /\ UNCHANGED store
                /\ Reply("addFloor", 500, "Server error")
           ELSE IF FindOne(id) = {}
           THEN /\ UNCHANGED store
                /\ Reply("addFloor", 404, "Building not found")
           ELSE LET old == CHOOSE d \in FindOne(id) : TRUE
                IN  /\ store' = (store \ {old}) \cup
                          {[old EXCEPT !.floors = Push(old.floors, floorData)]}
                    /\ Reply("addFloor", 201, "")

\* ------------------------------------------------------------ PUT /:id/floors/:floorId
\* building.floors.findIndex(f => f.id === floorId): the first match, counted
\* from 1 here; 0 when there is none (findIndex's -1).
FindIndex(floors, floorId) ==
    IF \E i \in 1..Len(floors) : floors[i].id = floorId
    THEN CHOOSE i \in 1..Len(floors) :
            /\ floors[i].id = floorId
            /\ \A j \in 1..(i - 1) : floors[j].id # floorId
    ELSE 0

\* Mutant of AssignFloor: the body is assigned to every floor.
AssignFloor_Every(building, floorIndex, body) ==
    [building EXCEPT
        !.floors = [j \in 1..Len(building.floors) |->
                        Merge(building.floors[j], body)]]

\* Object.assign(building.floors[floorIndex], req.body)
AssignFloor(building, floorIndex, body) ==
    [building EXCEPT !.floors[floorIndex] = Merge(@, body)]

\* building.save(): the whole in-memory document replaces the stored one
\* with the same _id; the save fails when that document is gone or the
\* unique index on id rejects the result.
Saved(doc) == {d \in store : d._id # doc._id} \cup {doc}
SaveOk(doc) == (\E d \in store : d._id = doc._id) /\ UniqueIds(Saved(doc))

\* First step: findOne, the two not-found checks and the in-memory
\* mutation, up to the await of building.save().
UpdateFloorFind(r, id, floorId, body, dbOk) ==
    /\ pc[r] = "idle"
    /\ UNCHANGED <<store, remote, nextUuid>>
    /\ IF ~dbOk THEN Reply("updateFloor", 500, "Server error")
       ELSE IF FindOne(id) = {}
       THEN Reply("updateFloor", 404, "Building not found")
       ELSE LET building == CHOOSE d \in FindOne(id) : TRUE
                floorIndex == FindIndex(building.floors, floorId)
            IN  IF floorIndex = 0
                THEN Reply("updateFloor", 404, "Floor not found")
                ELSE Await(r, "updateFloor_save",
                        [NoReq EXCEPT !.id = id, !.read = Some(building),
                            !.floorIndex = floorIndex,
                            !.doc = Some(AssignFloor(building, floorIndex, body))])

\* Mutant of UpdateFloorSave: the save carries a version check and fails
\* when the stored building is no longer the one the handler read.
UpdateFloorSave_Versioned(r, dbOk) ==
    /\ pc[r] = "updateFloor_save"
    /\ UNCHANGED <<remote, nextUuid>>
    /\ IF dbOk /\ SaveOk(req[r].doc[1]) /\ req[r].read[1] \in store
       THEN /\ store' = Saved(req[r].doc[1])
            /\ Finish(r, "updateFloor", 200, "")
       ELSE /\ UNCHANGED store
            /\ Finish(r, "updateFloor", 500, "Server error")

\* Second step: building.save() settles.
UpdateFloorSave(r, dbOk) ==
    /\ pc[r] = "updateFloor_save"
    /\ UNCHANGED <<remote, nextUuid>>
    /\ IF dbOk /\ SaveOk(req[r].doc[1])
       THEN /\ store' = Saved(req[r].doc[1])
            /\ Finish(r, "updateFloor", 200, "")
       ELSE /\ UNCHANGED store
            /\ Finish(r, "updateFloor", 500, "Server error")

\* ------------------------------------------------------------ DELETE /:id/floors/:floorId
\* { $pull: { floors: { id: floorId } } }: every matching floor goes.
RECURSIVE Pull(_, _)
Pull(floors, floorId) ==
    IF floors = <<>> THEN <<>>
    ELSE IF Head(floors).id = floorId THEN Pull(Tail(floors), floorId)
    ELSE <<Head(floors)>> \o Pull(Tail(floors), floorId)

DeleteFloor(id, floorId, dbOk) ==
    /\ UNCHANGED <<remote, nextUuid>>
    /\ IF ~dbOk
       THEN /\ UNCHANGED store
            /\ Reply("deleteFloor", 500, "Server error")
       ELSE IF FindOne(id) = {}
       THEN /\ UNCHANGED store
            /\ Reply("deleteFloor", 404, "Building not found")
       ELSE LET old == CHOOSE d \in FindOne(id) : TRUE
            IN  /\ store' = (store \ {old}) \cup
                      {[old EXCEPT !.floors = Pull(old.floors, floorId)]}
                /\ Reply("deleteFloor", 200, "")

\* ------------------------------------------------------------ Upload Adapter
\* String(frameNumber).padStart(3, '0')
RECURSIVE PadStart(_, _, _)
PadStart(s, n, c) == IF Len(s) >= n THEN s ELSE PadStart(c \o s, n, c)

\* Version of the asset stored under (folder, public_id); 0 when there is none.
RemoteVersion(folder, public_id) ==
    IF \E a \in remote : a.folder = folder /\ a.public_id = public_id
    THEN (CHOOSE a \in remote :
            a.folder = folder /\ a.public_id = public_id).version
    ELSE 0

\* The asset cloudinary.uploader.upload_stream creates with overwrite: true;
\* its secure_url names the folder, the public id and the new version.
Uploaded(folder, public_id) ==
    [folder |-> folder, public_id |-> public_id,
     version |-> RemoteVersion(folder, public_id) + 1]

\* The remote store once the upload has settled: the new asset replaces the
\* one stored under the same key.
UploadStream(folder, public_id) ==
    {a \in remote : ~(a.folder = folder /\ a.public_id = public_id)} \cup
    {Uploaded(folder, public_id)}

\* ------------------------------------------------------------ POST /:id/upload-frame
\* Mutant of UploadFrameStart: the building is looked up before the file
\* and the frame number are checked.
UploadFrameStart_LookupFirst(r, id, file, frameNumber, dbOk) ==
    /\ pc[r] = "idle"
    /\ UNCHANGED <<store, remote, nextUuid>>
    /\ IF ~dbOk THEN Reply("uploadFrame", 500, "storage error")
       ELSE IF FindOne(id) = {}
       THEN Reply("uploadFrame", 404, "Building not found")
       ELSE IF ~file THEN Reply("uploadFrame", 400, "No frame file provided")
       ELSE IF frameNumber = ""
       THEN Reply("uploadFrame", 400, "Frame number is required")
       ELSE Await(r, "uploadFrame_upload",
                [NoReq EXCEPT !.id = id,
                    !.public_id = "frame_" \o PadStart(frameNumber, 3, "0")])

\* First step: the three precondition checks, up to the await of the upload.
UploadFrameStart(r, id, file, frameNumber, dbOk) ==
    /\ pc[r] = "idle"
    /\ UNCHANGED <<store, remote, nextUuid>>
    /\ IF ~file THEN Reply("uploadFrame", 400, "No frame file provided")
       ELSE IF frameNumber = ""
       THEN Reply("uploadFrame", 400, "Frame number is required")
       ELSE IF ~dbOk THEN Reply("uploadFrame", 500, "storage error")
       ELSE IF FindOne(id) = {}
       THEN Reply("uploadFrame", 404, "Building not found")
       ELSE Await(r, "uploadFrame_upload",
                [NoReq EXCEPT !.id = id,
                    !.public_id = "frame_" \o PadStart(frameNumber, 3, "0")])

\* Second step: the upload settles.
UploadFrameFinish(r, uploadOk) ==
    /\ pc[r] = "uploadFrame_upload"
    /\ UNCHANGED <<store, nextUuid>>
    /\ LET folder == "buildings/" \o req[r].id \o "/frames"
       IN  IF uploadOk
           THEN /\ RemoteVersion(folder, req[r].public_id) < MaxVersion
                /\ remote' = UploadStream(folder, req[r].public_id)
                /\ Finish(r, "uploadFrame", 200, "")
           ELSE /\ UNCHANGED remote
                /\ Finish(r, "uploadFrame", 500, "upload error")

\* ------------------------------------------------------------ POST /:id/upload-model
\* First step: the file check and findOne, up to the await of the upload.
UploadModelStart(r, id, file, dbOk) ==
    /\ pc[r] = "idle"
    /\ UNCHANGED <<store, remote, nextUuid>>
    /\ IF ~file THEN Reply("uploadModel", 400, "No file uploaded")
       ELSE IF ~dbOk THEN Reply("uploadModel", 500, "Failed to upload model")
       ELSE IF FindOne(id) = {}
       THEN Reply("uploadModel", 404, "Building not found")
       ELSE Await(r, "uploadModel_upload",
                [NoReq EXCEPT !.id = id, !.public_id = "model"])

\* Second step: the upload settles, up to the await of findOneAndUpdate.
UploadModelUpload(r, uploadOk) ==
    /\ pc[r] = "uploadModel_upload"
    /\ UNCHANGED <<store, nextUuid>>
    /\ LET folder == "buildings/" \o req[r].id \o "/models"
       IN  IF uploadOk
           THEN /\ RemoteVersion(folder, req[r].public_id) < MaxVersion
                /\ remote' = UploadStream(folder, req[r].public_id)
                /\ Await(r, "uploadModel_persist",
                      [req[r] EXCEPT
                          !.url = Some(Uploaded(folder, req[r].public_id))])
           ELSE /\ UNCHANGED remote
                /\ Finish(r, "uploadModel", 500, "Failed to upload model")

\* Mutant of UploadModelPersist: a failed persistence is swallowed and the
\* request answers 200 with the url.
UploadModelPersist_Swallow(r, dbOk) ==
    /\ pc[r] = "uploadModel_persist"
    /\ UNCHANGED <<remote, nextUuid>>
    /\ IF dbOk
       THEN /\ store' = {IF d.id = req[r].id
                         THEN Merge(d, [modelPath |-> req[r].url])
                         ELSE d : d \in store}
            /\ Finish(r, "uploadModel", 200, "")
       ELSE /\ UNCHANGED store
            /\ Finish(r, "uploadModel", 200, "")

\* Third step: findOneAndUpdate({ id }, { $set: { modelPath: url } })
\* settles; its result is not looked at.
UploadModelPersist(r, dbOk) ==
    /\ pc[r] = "uploadModel_persist"
    /\ UNCHANGED <<remote, nextUuid>>
    /\ IF dbOk
       THEN /\ store' = {IF d.id = req[r].id
                         THEN Merge(d, [modelPath |-> req[r].url])
                         ELSE d : d \in store}
            /\ Finish(r, "uploadModel", 200, "")
       ELSE /\ UNCHANGED store
            /\ Finish(r, "uploadModel", 500, "Failed to upload model")

\* ------------------------------------------------------------ specifications
OptIds(ids) == {Absent} \cup {Some(i) : i \in ids}

\* The building requests, with the given values of the field `name`.
BuildingRequests(names) ==
    \/ \E id \in KnownIds, dbOk \in BOOLEAN : GetBuilding(id, dbOk)
    \/ \E optId \in OptIds(ClientIds), name \in names, dbOk \in BOOLEAN :
            CreateBuilding(optId, name, dbOk)
    \/ \E id \in KnownIds, dbOk \in BOOLEAN,
          body \in {[name |-> n] : n \in names} \cup
                   {[id |-> i] : i \in ClientIds} :
            UpdateBuilding(id, body, dbOk)
    \/ \E id \in KnownIds, dbOk \in BOOLEAN : DeleteBuilding(id, dbOk)

\* The floor requests that are a single findOneAndUpdate.
FloorWrites ==
    \/ \E id \in KnownIds, optId \in OptIds(ClientFloorIds), label \in Labels,
          dbOk \in BOOLEAN :
            AddFloor(id, optId, label, dbOk)
    \/ \E id \in KnownIds, floorId \in KnownFloorIds, dbOk \in BOOLEAN :
            DeleteFloor(id, floorId, dbOk)

\* Update-floor, its handlers suspended in the given slots.
FloorUpdates(slots) ==
    \/ \E r \in slots, id \in KnownIds, floorId \in KnownFloorIds,
          dbOk \in BOOLEAN,
          body \in {[label |-> l] : l \in Labels} \cup
                   {[id |-> f] : f \in ClientFloorIds} :
            UpdateFloorFind(r, id, floorId, body, dbOk)
    \/ \E r \in slots, dbOk \in BOOLEAN : UpdateFloorSave(r, dbOk)

\* The frame uploads, their handlers suspended in the given slots.
FrameRequests(slots) ==
    \/ \E r \in slots, id \in KnownIds, file \in BOOLEAN,
          frameNumber \in FrameNumbers, dbOk \in BOOLEAN :
            UploadFrameStart(r, id, file, frameNumber, dbOk)
    \/ \E r \in slots, uploadOk \in BOOLEAN : UploadFrameFinish(r, uploadOk)

\* The model uploads, their handlers suspended in the given slots.
ModelRequests(slots) ==
    \/ \E r \in slots, id \in KnownIds, file \in BOOLEAN, dbOk \in BOOLEAN :
            UploadModelStart(r, id, file, dbOk)
    \/ \E r \in slots, uploadOk \in BOOLEAN : UploadModelUpload(r, uploadOk)
    \/ \E r \in slots, dbOk \in BOOLEAN : UploadModelPersist(r, dbOk)

\* Every request, any two handlers suspended at the same time.
Next ==
    \/ BuildingRequests(Names)
    \/ FloorWrites
    \/ FloorUpdates(Reqs)
    \/ FrameRequests(Reqs)
    \/ ModelRequests(Reqs)
Spec == Init /\ [][Next]_vars

\* The building and floor requests; one update-floor handler is suspended
\* at a time, the other writers are single steps that run in between.
NextFloors == BuildingRequests({"A"}) \/ FloorWrites \/ FloorUpdates({"r1"})
SpecFloors == Init /\ [][NextFloors]_vars

\* The building requests and the single-step floor requests.
NextAppend == BuildingRequests({"A"}) \/ FloorWrites
SpecAppend == Init /\ [][NextAppend]_vars

\* The building requests and upload-frame, one upload in flight at a time.
NextFrames == BuildingRequests({"A"}) \/ FrameRequests({"r1"})
SpecFrames == Init /\ [][NextFrames]_vars

\* The building requests and upload-model, two uploads in flight.
NextModels == BuildingRequests({"A"}) \/ ModelRequests(Reqs)
SpecModels == Init /\ [][NextModels]_vars

\* The building requests and upload-model, one upload in flight at a time.
NextPersist == BuildingRequests({"A"}) \/ ModelRequests({"r1"})
SpecPersist == Init /\ [][NextPersist]_vars

\* ------------------------------------------------------------ properties
\* The document of collection S with the given _id, as a set (empty: none).
ById(S, oid) == {d \in S : d._id = oid}
\* The documents of collection S with the given id.
FindIn(S, id) == {d \in S : d.id = id}
\* Every building id that occurs in a behaviour.
AllIds == ClientIds \cup {UuidNames[i] : i \in 1..MaxUuids}
\* The model asset the remote store holds for building id (empty: none).
RemoteModel(assets, id) ==
    {a \in assets : a.folder = "buildings/" \o id \o "/models"
                    /\ a.public_id = "model"}

\* C1: when two upload-model requests have completed with 200 one right
\* after the other and no upload-model request holds a URL it has yet to
\* persist, the modelPath of the building the second one named is the URL
\* returned by the most recently completed remote model upload for that
\* building.
C1_ModelPathIsLatestUpload ==
    [][\A r \in Reqs :
        (resp.op = "uploadModel" /\ resp.status = 200
            /\ pc[r] = "uploadModel_persist" /\ pc'[r] = "idle"
            /\ resp'.op = "uploadModel" /\ resp'.status = 200
            /\ \A q \in Reqs : pc'[q] # "uploadModel_persist")
        => \A d \in FindIn(store', req[r].id) :
            /\ d.modelPath # Absent
            /\ d.modelPath[1] \in RemoteModel(remote', req[r].id)]_vars

\* C2: a stored building never changes its id: a document that is in the
\* collection before and after a step has the same id in both.
C2_IdImmutable ==
    [][\A d \in store : \A e \in ById(store', d._id) : e.id = d.id]_vars

\* C3: within every building's floors sequence no two floors share an id.
C3_FloorIdsUnique ==
    \A d \in store : \A i, j \in 1..Len(d.floors) :
        d.floors[i].id = d.floors[j].id => i = j

\* Document e is document d with nothing but the fields of floor i changed.
OnlyFloorChanged(d, e, i) ==
    /\ e._id = d._id /\ e.id = d.id /\ e.name = d.name
    /\ e.modelPath = d.modelPath
    /\ Len(e.floors) = Len(d.floors)
    /\ \A j \in 1..Len(d.floors) : j # i => e.floors[j] = d.floors[j]

\* C4 as claimed: an update-floor request that answers 200 changes, in the
\* collection, only the fields of the floor it names: the sibling floors,
\* the order and length of floors, the building's other fields and every
\* other building are as the collection held them before the save.
C4_UpdateFloorChangesOnlyThatFloor ==
    [][\A r \in Reqs :
        (pc[r] = "updateFloor_save" /\ pc'[r] = "idle" /\ resp'.status = 200)
        => \E d \in ById(store, req[r].doc[1]._id) :
           \E e \in ById(store', req[r].doc[1]._id) :
                /\ OnlyFloorChanged(d, e, req[r].floorIndex)
                /\ store' \ {e} = store \ {d}]_vars

\* C4 amended: an update-floor request that answers 200 leaves the stored
\* building equal to the building the handler read with nothing but the
\* fields of the named floor changed, and leaves every other building as it
\* was; what other requests wrote to that building since the read is
\* overwritten.
C4_UpdateFloorChangesOnlyThatFloorOfRead ==
    [][\A r \in Reqs :
        (pc[r] = "updateFloor_save" /\ pc'[r] = "idle" /\ resp'.status = 200)
        => \E d \in ById(store, req[r].read[1]._id) :
           \E e \in ById(store', req[r].read[1]._id) :
                /\ OnlyFloorChanged(req[r].read[1], e, req[r].floorIndex)
                /\ store' \ {e} = store \ {d}]_vars

\* C4 witness: an update-floor has just answered 200 on a building that has
\* a sibling floor, with another building in the collection.
C4_Witness ==
    /\ resp.op = "updateFloor" /\ resp.status = 200
    /\ \E d \in store : Len(d.floors) = 2 /\ d.floors[2].label = "L2"
    /\ Cardinality(store) = 2

\* C5: deleting a known id answers 200 and removes the building, deleting an
\* unknown id answers 404 and leaves the collection as it was, and after a
\* delete that answered 200 an id that matches no building (get-building
\* answers 404) starts to match one only by a create-building request that
\* answers 201.
C5_DeletedStaysNotFound ==
    [][/\ \A id \in AllIds :
            DeleteBuilding(id, TRUE) =>
                IF FindOne(id) # {}
                THEN resp'.status = 200 /\ FindIn(store', id) = {}
                ELSE resp'.status = 404 /\ store' = store
       /\ \A id \in AllIds :
            (resp.op = "deleteBuilding" /\ resp.status = 200
                /\ FindOne(id) = {} /\ FindIn(store', id) # {})
            => (resp'.op = "createBuilding" /\ resp'.status = 201)]_vars

\* C6: an add-floor request that answers 201 keeps every floor the building
\* had, in the same positions, and puts the new floor after them; nothing
\* else in the collection changes.  Two add-floor requests are two such
\* steps, so neither append is lost.
C6_AddFloorAppends ==
    [][(resp'.op = "addFloor" /\ resp'.status = 201) =>
        \A id \in AllIds, optId \in OptIds(ClientFloorIds), label \in Labels :
            AddFloor(id, optId, label, TRUE)
            => \E d \in FindOne(id) : \E e \in ById(store', d._id) :
                /\ store' \ {e} = store \ {d}
                /\ Len(e.floors) = Len(d.floors) + 1
                /\ SubSeq(e.floors, 1, Len(d.floors)) = d.floors
                /\ e.floors[Len(e.floors)] =
                        [id |-> IdOrUuid(optId), label |-> label]
                /\ [e EXCEPT !.floors = d.floors] = d]_vars

\* C6 witness: the second of two add-floor requests on a building has just
\* answered 201 and both floors are there.
C6_Witness ==
    /\ resp.op = "addFloor" /\ resp.status = 201
    /\ \E d \in store : Len(d.floors) = 2 /\ d.floors[1].id # d.floors[2].id

\* C7: upload-frame answers 400 when the file is missing, otherwise 400 when
\* the frame number is missing, otherwise 404 when no building has the id;
\* in these cases no upload is started and the remote store is untouched;
\* whatever it answers, it leaves the collection as it was.
C7_UploadFrameChecks ==
    [][(resp'.op = "uploadFrame" \/ pc' # pc) =>
       /\ \A r \in Reqs, id \in AllIds, file \in BOOLEAN,
             frameNumber \in FrameNumbers, dbOk \in BOOLEAN :
            UploadFrameStart(r, id, file, frameNumber, dbOk) =>
                /\ ~file =>
                    (resp'.status = 400 /\ resp'.msg = "No frame file provided")
                /\ (file /\ frameNumber = "") =>
                    (resp'.status = 400 /\ resp'.msg = "Frame number is required")
                /\ (file /\ frameNumber # "" /\ dbOk /\ FindOne(id) = {}) =>
                    (resp'.status = 404 /\ resp'.msg = "Building not found")
                /\ (~file \/ frameNumber = "" \/ FindOne(id) = {}) =>
                    (pc'[r] = "idle" /\ remote' = remote)
                /\ store' = store
       /\ \A r \in Reqs, uploadOk \in BOOLEAN :
            UploadFrameFinish(r, uploadOk) =>
                (store' = store /\ resp'.status \in {200, 500})]_vars

\* C7 witness: upload-frame has just answered 404 for an id no building has,
\* while the collection holds buildings and the remote store holds frames.
C7_Witness ==
    /\ resp.op = "uploadFrame" /\ resp.status = 404
    /\ store # {} /\ remote # {}

\* C8: when the persistence of the URL fails after a successful upload, the
\* request answers the generic 500, the remote store keeps what it holds and
\* the collection is as it was; when the upload itself fails, the request
\* ends with 500 without having written the collection.
C8_NoRollback ==
    [][(resp'.op = "uploadModel" \/ pc' # pc) => \A r \in Reqs :
        /\ UploadModelPersist(r, FALSE) =>
            /\ resp' = [op |-> "uploadModel", status |-> 500,
                        msg |-> "Failed to upload model"]
            /\ store' = store /\ remote' = remote
            /\ pc'[r] = "idle"
        /\ UploadModelUpload(r, FALSE) =>
            /\ resp'.status = 500
            /\ store' = store /\ remote' = remote
            /\ pc'[r] = "idle"
        /\ \A id \in AllIds, file \in BOOLEAN, dbOk \in BOOLEAN :
            UploadModelStart(r, id, file, dbOk) => store' = store]_vars

\* C8 witness: upload-model has just answered 500 while the remote store
\* holds a model for a building whose record has no modelPath.
C8_Witness ==
    /\ resp.op = "uploadModel" /\ resp.status = 500
    /\ \E d \in store : d.modelPath = Absent /\ RemoteModel(remote, d.id) # {}

\* The building stored under the _id the handler of slot r read is no longer
\* the building it read: another request wrote it in between.
Stale(r) == \E d \in ById(store, req[r].read[1]._id) : d # req[r].read[1]

\* C9: update-floor's save checks no version and takes no lock: when the
\* building was written by another request since the handler read it, the
\* save still answers 200 and the stored building becomes the handler's
\* copy, so what the other request wrote (and was answered success for) is
\* gone.
C9_LostUpdate ==
    [][\A r \in Reqs :
        (UpdateFloorSave(r, TRUE) /\ Stale(r) /\ SaveOk(req[r].doc[1]))
        => /\ resp'.op = "updateFloor" /\ resp'.status = 200
           /\ ById(store', req[r].read[1]._id) = {req[r].doc[1]}]_vars

\* C9 witness: an update-floor is about to save a copy that lacks a floor an
\* add-floor request appended (and answered 201 for) after the read.
C9_Witness ==
    \E r \in Reqs :
        /\ pc[r] = "updateFloor_save"
        /\ resp.op = "addFloor" /\ resp.status = 201
        /\ SaveOk(req[r].doc[1])
        /\ \E d \in ById(store, req[r].read[1]._id) :
                Len(d.floors) > Len(req[r].read[1].floors)

\* C10: whenever upload-model answers 200, a building with the requested id
\* exists when the URL is persisted and its modelPath is that URL.
C10_OkImpliesPersisted ==
    [][\A r \in Reqs :
        (pc[r] = "uploadModel_persist" /\ pc'[r] = "idle"
            /\ resp'.op = "uploadModel" /\ resp'.status = 200)
        => \E d \in FindIn(store', req[r].id) : d.modelPath = req[r].url]_vars
====
